---- MODULE Spec2Model ----
(***************************************************************************)
(* Model of download_nuscenes.py: the resumable single-file transfer       *)
(* (download_file), the worker pool of one dispatch round (worker,         *)
(* download_files_in_parallel) and the retry loop of main.                 *)
(*                                                                         *)
(* Sizes are counted in blocks of 1 MiB, so that chunk_size is 1.  A URL   *)
(* is the sequence of its '/'-separated segments.  The remote server is    *)
(* the environment: it honours Range requests (206 with the remaining      *)
(* bytes) and answers 416 to a range that starts at or after the end of    *)
(* the content, as the S3 and CloudFront hosts of the URL list do.         *)
(***************************************************************************)
EXTENDS Integers, Sequences, FiniteSets, Bags, TLC

\* ------------------------------------------------------------------ bounds
NumUrls == 2            \* length of main's URL list (11 in the deployment)
MaxThreads == 2         \* largest value of --threads explored
ContentLen == 2         \* length of every remote file, in blocks

\* ------------------------------------------------------- program constants
retry_count == 3        \* main: retry_count = 3
chunk_size == 1         \* download_file: chunk_size=1024*1024 (one block)

Min(a, b) == IF a <= b THEN a ELSE b

\* main: the URL list; the last entry lives on the other host, every entry
\* has its own final path segment.
urls ==
  [n \in 1..NumUrls |->
     <<IF n = NumUrls THEN "cloudfront" ELSE "s3", "public", "v1.0", n>>]

Urls == {urls[n] : n \in 1..NumUrls}

\* download_file: filename = url.split('/')[-1]; save_path = save_dir/filename
DirectoryName(url) == url[Len(url) - 1]

filename(url) == url[Len(url)]

Names == {filename(u) : u \in Urls}

\* The remote content behind a URL: block j carries the value j, so that a
\* duplicated or dropped block shows in the local file.
Content(url) == [j \in 1..ContentLen |-> j]

NoFile == [exists |-> FALSE, data |-> <<>>]

\* os.path.exists / os.path.getsize
resume_pos(file) == IF file.exists THEN Len(file.data) ELSE 0

\* headers['Range'] = f'bytes={resume_byte_pos}-' only when resume_byte_pos > 0
RangeAlways(resume_byte_pos) == {<<"Range", resume_byte_pos>>}

make_headers(resume_byte_pos) ==
  IF resume_byte_pos > 0 THEN {<<"Range", resume_byte_pos>>} ELSE {}

\* requests.get(url, headers=headers, stream=True): the server's answer.
requests_get(url, headers) ==
  LET c == Content(url)
      ranged == \E h \in headers : h[1] = "Range"
      off == IF ranged THEN (CHOOSE h \in headers : h[1] = "Range")[2] ELSE 0
  IN  IF ~ranged
        THEN [status |-> 200, content_length |-> Len(c), body |-> c]
      ELSE IF off >= Len(c)
        THEN [status |-> 416, content_length |-> 0, body |-> <<>>]
      ELSE [status |-> 206, content_length |-> Len(c) - off,
            body |-> SubSeq(c, off + 1, Len(c))]

\* r.raise_for_status(): HTTPError for a 4xx or 5xx status
raises_for_status(r) == r.status >= 400

\* r.iter_content(chunk_size): the body cut into chunks of chunk_size
RECURSIVE iter_content(_)
iter_content(body) ==
  IF body = <<>> THEN <<>>
  ELSE LET k == Min(chunk_size, Len(body))
       IN  <<SubSeq(body, 1, k)>> \o iter_content(SubSeq(body, k + 1, Len(body)))

\* open(save_path, 'ab'): creates the file when missing, keeps its bytes
OpenTruncate(file) == [exists |-> TRUE, data |-> <<>>]

open_append(file) == [exists |-> TRUE, data |-> file.data]

\* An empty chunk (a keep-alive) arrives after the first k chunks.
with_keepalive(chunks, k) ==
  SubSeq(chunks, 1, Min(k, Len(chunks))) \o <<<<>>>>
    \o SubSeq(chunks, Min(k, Len(chunks)) + 1, Len(chunks))

\* the loop body: if chunk: f.write(chunk); pbar.update(len(chunk))
WriteUnfiltered(st, chunk) ==
  [data |-> st.data \o chunk, n |-> st.n + chunk_size, total |-> st.total]

write_chunk(st, chunk) ==
  IF chunk # <<>>
    THEN [data |-> st.data \o chunk, n |-> st.n + Len(chunk), total |-> st.total]
    ELSE st

RECURSIVE stream(_, _)
stream(st, chunks) ==
  IF chunks = <<>> THEN st ELSE stream(write_chunk(st, Head(chunks)), Tail(chunks))

MaxChunks == (ContentLen + chunk_size - 1) \div chunk_size

\* What the environment does to one transfer: nothing, an OSError from
\* os.makedirs, a transport error on the request, an OSError on open, or
\* after k good chunks a transport error from iter_content, an OSError
\* from f.write, or an empty chunk that iter_content hands over.
Faults ==
  {<<"none", 0>>, <<"makedirs", 0>>, <<"get", 0>>, <<"open", 0>>}
    \cup ({"iter", "write", "keepalive"} \X (0..(MaxChunks - 1)))

\* download_file.  result is "True", "False" (the RequestException handler)
\* or "OSError" (an exception that is no RequestException leaves
\* download_file).  n is the position of the progress bar at the end.
download_file(file, url, fault) ==
  LET resume_byte_pos == resume_pos(file)
      headers == make_headers(resume_byte_pos)
      r == requests_get(url, headers)
      total_size == r.content_length + resume_byte_pos
      f == open_append(file)
      chunks == IF fault[1] = "keepalive"
                  THEN with_keepalive(iter_content(r.body), fault[2])
                  ELSE iter_content(r.body)
      st0 == [data |-> f.data, n |-> resume_byte_pos, total |-> total_size]
      cut == fault[1] \in {"iter", "write"} /\ fault[2] < Len(chunks)
      st == stream(st0, IF cut THEN SubSeq(chunks, 1, fault[2]) ELSE chunks)
  IN  IF fault[1] = "makedirs"
        THEN [file |-> file, result |-> "OSError", n |-> 0, headers |-> {}]
      ELSE IF fault[1] = "get" \/ raises_for_status(r)
        THEN [file |-> file, result |-> "False", n |-> resume_byte_pos,
              headers |-> headers]
      ELSE IF fault[1] = "open"
        THEN [file |-> file, result |-> "OSError", n |-> resume_byte_pos,
              headers |-> headers]
      ELSE [file |-> [exists |-> TRUE, data |-> st.data],
            result |-> IF ~cut THEN "True"
                       ELSE IF fault[1] = "iter" THEN "False" ELSE "OSError",
            n |-> st.n, headers |-> headers]

\* What a call of download_file can leave behind, over everything the
\* environment can do to it: the local file and how the call ended.
outcomes(file, url) ==
  {LET d == download_file(file, url, fault)
   IN  [file |-> d.file, result |-> d.result] : fault \in Faults}

\* worker: if not success: failed_queue.put(url)
PutAlways(fq, url, success) == Append(fq, url)

record_failure(fq, url, success) == IF ~success THEN Append(fq, url) ELSE fq

\* download_files_in_parallel: thread_count = min(max_threads, len(urls))
ThreadPerLimit(max_threads, list) == max_threads

ThreadPerTask(max_threads, list) == Len(list)

thread_count(max_threads, list) == Min(max_threads, Len(list))

\* queue.join(): returns once every put has been matched by a task_done
JoinAtOnce(unfinished_tasks) == TRUE

join_ready(unfinished_tasks) == unfinished_tasks = 0

\* main: the for loop runs again while i < retry_count and failed_urls is
\* not empty
RetryRegardless(k, failed) == k < retry_count

RetryOneFewer(k, failed) == k < retry_count - 1 /\ failed # <<>>

retry_again(k, failed) == k < retry_count /\ failed # <<>>

VARIABLES
  max_threads,    \* args.threads
  files,          \* the save directory: filename -> file
  mainpc,         \* where main is: "start", "join", "loop", "sleep", "done"
  round,          \* number of the dispatch round main started last
  i,              \* main's loop variable
  failed_urls,    \* main's failed_urls
  queue,          \* the Work Queue of the current round
  unfinished,     \* queue.unfinished_tasks
  failed_queue,   \* the failed_queue of the current round
  threads,        \* the worker threads of the current round, a bag of states
  tasks,          \* history: the list the current round was called with
  started,        \* history: threads started by the current round
  calls,          \* history: download_file calls of the current round
  result,         \* history: how the current round's call for a URL ended
  fate,           \* history: what has become of a URL over the rounds
  cooled,         \* history: a sleep has run since the last round returned
  sleptBefore     \* history: cooled, as it was when the current round started

vars == <<max_threads, files, mainpc, round, i, failed_urls, queue,
          unfinished, failed_queue, threads, tasks, started, calls, result,
          fate, cooled, sleptBefore>>

hist == <<tasks, started, calls, result, fate, cooled, sleptBefore>>

\* fate of a URL: "failing" while every round so far has called
\* download_file for it and every call returned False; "ok" once a call
\* returned True; "raised" once a call ended in an exception; "again" when
\* it was called after that; "left" when a round returned without having
\* called it.
AfterCall(f, res) ==
  IF f # "failing" THEN "again"
  ELSE IF res = "True" THEN "ok"
  ELSE IF res = "OSError" THEN "raised"
  ELSE "failing"

AfterRound(f, called) == IF f = "failing" /\ ~called THEN "left" ELSE f

\* A thread is: where it is in worker, its url, and whether an exception is
\* passing through it.  The threads of a round differ in nothing else, so
\* they are kept as a bag, and a thread that has ended is no longer in it.
\* url is reset once worker has used it for the last time.
NewThread == [pc |-> "check", url |-> <<>>, exc |-> FALSE]

Become(t, new) == (threads (-) SetToBag({t})) (+) SetToBag({new})

Live == BagToSet(threads)

\* The save directory at the start: empty (a first run), or holding every
\* file complete (a run repeated after a finished download).  Partial files
\* arise in the run itself, from transfers that fail midway.
InitFiles ==
  {[name \in Names |-> NoFile],
   [name \in Names |->
      [exists |-> TRUE,
       data |-> Content(CHOOSE u \in Urls : filename(u) = name)]]}

Init ==
  /\ max_threads \in 1..MaxThreads
  /\ files \in InitFiles
  /\ mainpc = "start"
  /\ round = 0
  /\ i = 0
  /\ failed_urls = <<>>
  /\ queue = <<>>
  /\ unfinished = 0
  /\ failed_queue = <<>>
  /\ threads = EmptyBag
  /\ tasks = <<>>
  /\ started = 0
  /\ calls = [u \in Urls |-> 0]
  /\ result = [u \in Urls |-> "none"]
  /\ fate = [u \in Urls |-> "failing"]
  /\ cooled = FALSE
  /\ sleptBefore = FALSE

\* ------------------------------------------------------------------ worker
\* while not queue.empty(): the thread ends when it finds the queue empty
WCheck(t) ==
  /\ t.pc = "check"
  /\ threads' = IF queue = <<>>
                  THEN threads (-) SetToBag({t})
                  ELSE Become(t, [t EXCEPT !.pc = "get"])
  /\ UNCHANGED <<max_threads, files, mainpc, round, i, failed_urls, queue,
                 unfinished, failed_queue, hist>>

\* url = queue.get(): blocks while the queue is empty
WGet(t) ==
  /\ t.pc = "get"
  /\ queue # <<>>
  /\ threads' = Become(t, [t EXCEPT !.pc = "download", !.url = Head(queue)])
  /\ queue' = Tail(queue)
  /\ UNCHANGED <<max_threads, files, mainpc, round, i, failed_urls,
                 unfinished, failed_queue, hist>>

\* success = download_file(url, save_dir)
\* if not success: failed_queue.put(url)
\* An exception out of download_file skips the put and goes to the finally.
WDownload(t) ==
  /\ t.pc = "download"
  /\ \E d \in outcomes(files[filename(t.url)], t.url) :
       /\ files' = [files EXCEPT ![filename(t.url)] = d.file]
       /\ failed_queue' = IF d.result = "OSError" THEN failed_queue
                          ELSE record_failure(failed_queue, t.url, d.result = "True")
       /\ threads' = Become(t, [NewThread EXCEPT
                                  !.pc = "task_done",
                                  !.exc = (d.result = "OSError")])
       /\ calls' = [calls EXCEPT ![t.url] = @ + 1]
       /\ result' = [result EXCEPT ![t.url] = d.result]
       /\ fate' = [fate EXCEPT ![t.url] = AfterCall(@, d.result)]
  /\ UNCHANGED <<max_threads, mainpc, round, i, failed_urls, queue,
                 unfinished, tasks, started, cooled, sleptBefore>>

\* finally: queue.task_done(); an exception in flight then ends the thread,
\* otherwise the loop goes on
WTaskDone(t) ==
  /\ t.pc = "task_done"
  /\ unfinished' = unfinished - 1
  /\ threads' = IF t.exc
                  THEN threads (-) SetToBag({t})
                  ELSE Become(t, NewThread)
  /\ UNCHANGED <<max_threads, files, mainpc, round, i, failed_urls, queue,
                 failed_queue, hist>>

\* -------------------------------------------------------------------- main
\* download_files_in_parallel, lines 86-101: new queues, the queue filled,
\* the threads started.  The threads of the round before are left out from
\* here on: they hold the queues of their own round, and each of them is at
\* the loop test or blocked in get on a queue that stays empty
\* (StaleThreads), so none of them reads or writes anything again.
Dispatch(list) ==
  /\ queue' = list
  /\ unfinished' = Len(list)
  /\ failed_queue' = <<>>
  /\ threads' = IF thread_count(max_threads, list) > 0
                  THEN [t \in {NewThread} |-> thread_count(max_threads, list)]
                  ELSE EmptyBag
  /\ tasks' = list
  /\ started' = thread_count(max_threads, list)
  /\ calls' = [u \in Urls |-> 0]
  /\ result' = [u \in Urls |-> "none"]
  /\ sleptBefore' = cooled

\* failed_urls = download_files_in_parallel(urls, ...): the first round
MainStart ==
  /\ mainpc = "start"
  /\ Dispatch(urls)
  /\ mainpc' = "join"
  /\ UNCHANGED <<max_threads, files, round, i, failed_urls, fate, cooled>>

\* queue.join(), then the failed_queue is emptied into the returned list
MainJoin ==
  /\ mainpc = "join"
  /\ join_ready(unfinished)
  /\ failed_urls' = failed_queue
  /\ failed_queue' = <<>>
  /\ cooled' = FALSE
  /\ fate' = [u \in Urls |-> AfterRound(fate[u], calls[u] > 0)]
  /\ mainpc' = IF round = 0 THEN "loop" ELSE "sleep"
  /\ UNCHANGED <<max_threads, files, round, i, queue, unfinished, threads,
                 tasks, started, calls, result, sleptBefore>>

\* for i in range(retry_count): ... download_files_in_parallel(failed_urls)
MainRetry ==
  /\ mainpc = "loop"
  /\ retry_again(i, failed_urls)
  /\ Dispatch(failed_urls)
  /\ round' = round + 1
  /\ mainpc' = "join"
  /\ UNCHANGED <<max_threads, files, i, failed_urls, fate, cooled>>

\* time.sleep(2), the end of the loop body
MainSleep ==
  /\ mainpc = "sleep"
  /\ cooled' = TRUE
  /\ i' = i + 1
  /\ mainpc' = "loop"
  /\ UNCHANGED <<max_threads, files, round, failed_urls, queue, unfinished,
                 failed_queue, threads, tasks, started, calls, result, fate,
                 sleptBefore>>

\* the loop ends (break, or the range is used up) and main reports
MainFinish ==
  /\ mainpc = "loop"
  /\ ~retry_again(i, failed_urls)
  /\ mainpc' = "done"
  /\ UNCHANGED <<max_threads, files, round, i, failed_urls, queue,
                 unfinished, failed_queue, threads, hist>>

Next ==
  \/ MainStart
  \/ MainJoin
  \/ MainRetry
  \/ MainSleep
  \/ MainFinish
  \/ \E t \in Live : WCheck(t)
  \/ \E t \in Live : WGet(t)
  \/ \E t \in Live : WDownload(t)
  \/ \E t \in Live : WTaskDone(t)

Spec == Init /\ [][Next]_vars

\* The round has returned to main.
Returned == mainpc \in {"loop", "sleep", "done"}

\* Once a round has returned, its queue is empty for good and each of its
\* threads still alive is at the loop test or blocked in get.
StaleThreads ==
  Returned => /\ queue = <<>>
              /\ \A t \in Live : t.pc \in {"check", "get"}

\* ------------------------------------------------------------ properties
Range(seq) == {seq[k] : k \in 1..Len(seq)}

NoDup(seq) == \A a, b \in 1..Len(seq) : a # b => seq[a] # seq[b]

\* A transfer is in progress in thread t.
Transferring(t) == t.pc = "download"

\* C1: a dispatch round calls download_file exactly once for every task:
\* never twice, never for a URL that is no task of the round, and once the
\* round's workers have all ended no task is left without its call.
C1_ExactlyOncePerTask ==
  /\ \A u \in Urls : calls[u] <= 1 /\ (calls[u] = 1 => u \in Range(tasks))
  /\ (mainpc # "start" /\ Live = {}) => \A u \in Range(tasks) : calls[u] = 1

\* C2: the list a round returns holds every URL of the round whose transfer
\* did not end in success, each once.
C2_FailureListComplete ==
  Returned =>
    /\ Range(failed_urls) = {u \in Range(tasks) : result[u] # "True"}
    /\ NoDup(failed_urls)

\* C3: the failures of a round, while they are collected and when they are
\* returned, are no more than the tasks, are tasks of the round, and are
\* URLs whose transfer reported failure, never success.
C3_FailuresAmongTasks ==
  /\ Len(failed_queue) <= Len(tasks)
  /\ \A u \in Range(failed_queue) : u \in Range(tasks) /\ result[u] = "False"
  /\ Returned =>
       /\ Len(failed_urls) <= Len(tasks)
       /\ \A u \in Range(failed_urls) :
            u \in Range(tasks) /\ result[u] = "False"

\* C3 witness: a round of two tasks has returned one failure and left out
\* the URL that succeeded.
C3_Witness ==
  /\ Returned
  /\ Len(failed_urls) = 1
  /\ Len(tasks) >= 2
  /\ \E u \in Range(tasks) : result[u] = "True" /\ u \notin Range(failed_urls)

C5_Terminates ==
  /\ round <= retry_count
  /\ mainpc = "done" \/ ENABLED Next

\* The URLs that have failed in every round.
StillFailing == {u \in Urls : fate[u] = "failing"}

C7_CooldownBeforeRetry == round >= 1 => sleptBefore

\* C8: no call of download_file ends in an exception, no exception passes
\* through a worker, and every URL whose transfer did not succeed is put on
\* the round's failure list.
C8_ErrorsBecomeFalse ==
  /\ \A u \in Urls : result[u] \in {"none", "True", "False"}
  /\ \A t \in Live : ~t.exc
  /\ \A u \in Urls :
       result[u] \notin {"none", "True"} =>
         u \in Range(IF Returned THEN failed_urls ELSE failed_queue)

\* The local file of a URL.
FileOf(u) == files[filename(u)]

Partial(u) == 0 < resume_pos(FileOf(u)) /\ resume_pos(FileOf(u)) < Len(Content(u))

\* C9: a local file is always the first blocks of the remote content; a
\* transfer that starts on a partial file of K blocks requests the range
\* from K and, when it succeeds, leaves the whole remote content, no block
\* twice and none missing; and every URL that has succeeded has the whole
\* remote content in its file.
C9_ResumeCorrect ==
  /\ \A u \in Urls :
       /\ FileOf(u).data = SubSeq(Content(u), 1, Len(FileOf(u).data))
       /\ fate[u] = "ok" => FileOf(u).data = Content(u)
  /\ \A t \in Live :
       (Transferring(t) /\ Partial(t.url)) =>
         \A fault \in Faults :
           LET d == download_file(FileOf(t.url), t.url, fault)
           IN  /\ fault[1] # "makedirs" =>
                    d.headers = {<<"Range", resume_pos(FileOf(t.url))>>}
               /\ d.result = "True" =>
                    /\ d.file.data = Content(t.url)
                    /\ d.n = Len(Content(t.url))

\* C9 witness: in a retry round, after a failed attempt that left a partial
\* file, the transfer for that URL is running again.
C9_Witness ==
  /\ round >= 1
  /\ \E t \in Live :
       /\ Transferring(t)
       /\ Partial(t.url)
       /\ \E fault \in Faults :
            download_file(FileOf(t.url), t.url, fault).result = "True"

\* C10: a transfer called for a file that is already complete sends the
\* range from the file's size, leaves the file as it is and, with nothing
\* going wrong on the way, returns True.
C10_CompleteFileSucceeds ==
  \A t \in Live :
    (Transferring(t) /\ FileOf(t.url).exists
       /\ FileOf(t.url).data = Content(t.url)) =>
      LET d == download_file(FileOf(t.url), t.url, <<"none", 0>>)
      IN  /\ d.headers = {<<"Range", Len(Content(t.url))>>}
          /\ d.file = FileOf(t.url)
          /\ d.result = "True"

\* C11: no step ever shortens a local file or removes it: a file that exists
\* stays, and what it held stays as the first bytes of what it holds next;
\* so the offset the next attempt resumes from is never below the size a
\* failed attempt reached.
C11_NeverTruncated ==
  [][\A name \in Names :
       /\ files[name].exists => files'[name].exists
       /\ Len(files'[name].data) >= Len(files[name].data)
       /\ SubSeq(files'[name].data, 1, Len(files[name].data)) = files[name].data
       /\ resume_pos(files'[name]) >= resume_pos(files[name])]_vars

\* C11 witness: a round has returned a URL whose transfer failed midway and
\* left its partial file in place.
C11_Witness ==
  /\ Returned
  /\ \E u \in Range(failed_urls) : result[u] = "False" /\ Partial(u)

\* C12: a dispatch round starts min(max_threads, number of tasks) worker
\* threads, never more than it has tasks: that many threads are alive when
\* the round has just started them, and never more afterwards.
C12_ThreadCountClamped ==
  mainpc # "start" =>
    /\ started = Min(max_threads, Len(tasks))
    /\ started <= Len(tasks)
    /\ BagCardinality(threads) <= started
    /\ (mainpc = "join" /\ queue = tasks) =>
         BagCardinality(threads) = Min(max_threads, Len(tasks))

\* C12 witness: with --threads 2 a retry round of one task has just started
\* its one worker.
C12_Witness ==
  /\ mainpc = "join"
  /\ max_threads = 2
  /\ Len(tasks) = 1
  /\ queue = tasks
  /\ BagCardinality(threads) = 1

\* The number of download_file calls in progress.
InProgress ==
  BagCardinality([t \in {x \in Live : Transferring(x)} |-> CopiesIn(t, threads)])

\* C13: at no time are more download_file calls in progress than
\* max_threads, nor more than min(max_threads, number of tasks) of the
\* current round; and none of a round is still in progress when the round
\* has returned, so the calls of two rounds never add up.
C13_BoundedConcurrency ==
  /\ InProgress <= max_threads
  /\ InProgress <= Min(max_threads, Len(tasks))
  /\ Returned => InProgress = 0

\* C13 witness: with --threads 2, two transfers are in progress at once.
C13_Witness ==
  /\ max_threads = 2
  /\ InProgress = 2

\* C14: the tasks of a round are pairwise distinct URLs with pairwise
\* distinct file names, and two transfers in progress at the same time are
\* never for the same URL nor write the same local file.
C14_DistinctPaths ==
  /\ NoDup(tasks)
  /\ \A a, b \in 1..Len(tasks) : a # b => filename(tasks[a]) # filename(tasks[b])
  /\ \A t1, t2 \in Live :
       (Transferring(t1) /\ Transferring(t2)) =>
         /\ CopiesIn(t1, threads) = 1
         /\ t1 # t2 => filename(t1.url) # filename(t2.url)

\* C14 witness: in a retry round two workers are transferring at the same
\* time, each to its own file.
C14_Witness ==
  /\ round >= 1
  /\ \E t1, t2 \in Live :
       /\ t1 # t2
       /\ Transferring(t1)
       /\ Transferring(t2)
       /\ filename(t1.url) # filename(t2.url)

\* C15: once a round has returned an empty failure list, main starts no
\* further round: no step from there dispatches, the round number, the
\* task list and the empty failure list stay as they are, and from the head
\* of the retry loop main goes nowhere but to done.
C15_StopsOnEmptyList ==
  [][(Returned /\ failed_urls = <<>>) =>
       /\ round' = round
       /\ failed_urls' = <<>>
       /\ tasks' = tasks
       /\ mainpc' \in {"loop", "sleep", "done"}
       /\ (mainpc = "loop" /\ mainpc' # "loop") => mainpc' = "done"]_vars

\* C15 witness: the first retry round returned no failure and main is done
\* with retries left over.
C15_Witness ==
  /\ mainpc = "done"
  /\ failed_urls = <<>>
  /\ round = 1
  /\ round < retry_count

\* C16: a retry round is called with the failure list the round before it
\* returned; the URLs it transfers are exactly those that failed in every
\* earlier round: a URL outside its task list has succeeded before, a URL
\* it transfers has never succeeded or been left out before; the failure
\* list it returns is within its task list; and no URL is transferred more
\* than retry_count + 1 times, once per round.
C16_RetriesExactlyTheFailures ==
  /\ (mainpc = "join" /\ round >= 1) => tasks = failed_urls
  /\ round >= 1 =>
       \A u \in Urls :
         /\ u \notin Range(tasks) => fate[u] = "ok"
         /\ u \in Range(tasks) => fate[u] # "again"
  /\ (Returned /\ round >= 1) => Range(failed_urls) \subseteq Range(tasks)
  /\ round <= retry_count
  /\ \A u \in Urls : calls[u] <= 1

\* The headers of the request a transfer in thread t sends.
HeadersSent(t) == download_file(FileOf(t.url), t.url, <<"none", 0>>).headers

\* C17: a transfer sends a Range header from the size of the local file
\* whenever that file exists, an empty file included, and sends no Range
\* header exactly when the file does not exist.
C17_RangeIffFileExists ==
  \A t \in Live :
    Transferring(t) =>
      /\ FileOf(t.url).exists =>
           HeadersSent(t) = {<<"Range", Len(FileOf(t.url).data)>>}
      /\ ~FileOf(t.url).exists <=> HeadersSent(t) = {}

\* C17 as amended: a transfer sends a Range header from the size of the
\* local file exactly when that file exists and is not empty; for a missing
\* file and for an existing empty file it sends no Range header.
C17_RangeIffFileNotEmpty ==
  \A t \in Live :
    Transferring(t) =>
      LET file == FileOf(t.url)
      IN  /\ (file.exists /\ Len(file.data) > 0) =>
               HeadersSent(t) = {<<"Range", Len(file.data)>>}
          /\ (~file.exists \/ Len(file.data) = 0) <=> HeadersSent(t) = {}

\* C17 witness: a transfer is running for a file that exists and is empty,
\* left by an attempt that failed before its first chunk.
C17_Witness ==
  \E t \in Live :
    /\ Transferring(t)
    /\ FileOf(t.url).exists
    /\ FileOf(t.url).data = <<>>

\* C18: however far a transfer gets (to its end, or to an error after any
\* number of chunks), the position of the progress bar is then the size of
\* the local file, the resume offset plus the chunks written; and an empty
\* chunk among those received changes neither the file nor the position.
C18_ProgressMatchesFile ==
  \A t \in Live :
    Transferring(t) =>
      LET file == FileOf(t.url)
          undisturbed == download_file(file, t.url, <<"none", 0>>)
      IN  \A fault \in Faults :
            LET d == download_file(file, t.url, fault)
            IN  /\ fault[1] # "makedirs" =>
                     /\ d.n = Len(d.file.data)
                     /\ d.n - resume_pos(file) = Len(d.file.data) - Len(file.data)
                /\ fault[1] = "keepalive" => d = undisturbed

\* C18 witness: a transfer that resumes a partial file receives an empty
\* chunk on its way and ends with the progress bar at the full size.
C18_Witness ==
  \E t \in Live :
    /\ Transferring(t)
    /\ Partial(t.url)
    /\ \E fault \in Faults :
         /\ fault[1] = "keepalive"
         /\ download_file(FileOf(t.url), t.url, fault).n = Len(Content(t.url))

\* Thread t is blocked in queue.get() on an empty queue.
BlockedInGet(t) == t.pc = "get" /\ queue = <<>>

\* C19: no worker is ever blocked in queue.get() on the empty Work Queue,
\* where nothing would wake it again: every worker that finds the queue
\* drained leaves its loop.
C19_NoWorkerBlockedInGet == \A t \in Live : ~BlockedInGet(t)

\* A worker that will mark a task complete: it holds a claim, or it is on
\* its way to claim a task the queue still holds.
WillFinishATask(t) ==
  \/ t.pc \in {"download", "task_done"}
  \/ t.pc \in {"check", "get"} /\ queue # <<>>

\* C20: while a round waits at its barrier for tasks not yet marked
\* complete, some live worker is going to mark one complete, whether its
\* transfer returns or raises; the barrier never waits on tasks that no
\* live worker will claim.
C20_BarrierNeverStarves ==
  (mainpc = "join" /\ ~join_ready(unfinished)) =>
    \E t \in Live : WillFinishATask(t)

====
